---- MODULE Spec2Model ----
(***************************************************************************)
(* CleanDir: the cached App component (scan cache, pre-warm, navigation,   *)
(* deletion with history) and the scan command it invokes.                 *)
(***************************************************************************)
EXTENDS Integers, Sequences, FiniteSets, TLC

(***************************************************************************)
(* Bounds of the model.                                                    *)
(***************************************************************************)
\* foreground scans the user may start (Scan button, enterDirectory miss)
MaxScans == 2
\* confirmed deleteSelected calls
MaxDeletes == 1
\* paths in one delete_items batch
MaxBatch == 3
\* clicks (user actions) in one run
MaxClicks == 5
\* units of one scan that have counted and not yet emitted
Workers == 2
\* onConfirm calls of the modal that are followed at one time
MaxPending == 2
\* milliseconds that pass in one step of time during startup
TickMs == 500
\* milliseconds of startup that are followed
MaxTimeMs == 6000

(***************************************************************************)
(* Program constants.                                                      *)
(***************************************************************************)
PrewarmTop == 5
HistoryCap == 100

(***************************************************************************)
(* The file system under the scanned roots.  A path is the sequence of its *)
(* components, <<>> is "/".                                                *)
(***************************************************************************)
Root == <<>>
Users == <<"Users">>
Home == <<"Users", "me">>
Data == <<"data">>
NoPath == <<"">>

\* every path of the universe: is it a directory, and the length of a file
Tree ==
  (Root :> [dir |-> TRUE, size |-> 0]) @@
  (Users :> [dir |-> TRUE, size |-> 0]) @@
  (Home :> [dir |-> TRUE, size |-> 0]) @@
  (<<"Users", "me", "x">> :> [dir |-> FALSE, size |-> 2]) @@
  (<<"Users", "f">> :> [dir |-> FALSE, size |-> 4]) @@
  (<<"Users", "d1">> :> [dir |-> TRUE, size |-> 0]) @@
  (<<"Users", "d1", "z">> :> [dir |-> FALSE, size |-> 1]) @@
  (<<"Users", "d2">> :> [dir |-> TRUE, size |-> 0]) @@
  (<<"Users", "d2", "z">> :> [dir |-> FALSE, size |-> 2]) @@
  (<<"Users", "d3">> :> [dir |-> TRUE, size |-> 0]) @@
  (<<"Users", "d3", "z">> :> [dir |-> FALSE, size |-> 3]) @@
  (<<"Users", "d4">> :> [dir |-> TRUE, size |-> 0]) @@
  (<<"Users", "d4", "z">> :> [dir |-> FALSE, size |-> 5]) @@
  (<<"Users", "d5">> :> [dir |-> TRUE, size |-> 0]) @@
  (<<"Users", "d5", "z">> :> [dir |-> FALSE, size |-> 6]) @@
  (<<"Users", "d6">> :> [dir |-> TRUE, size |-> 0]) @@
  (<<"Users", "d6", "z">> :> [dir |-> FALSE, size |-> 7]) @@
  (Data :> [dir |-> TRUE, size |-> 0]) @@
  (<<"data", "a">> :> [dir |-> TRUE, size |-> 0]) @@
  (<<"data", "a", "1">> :> [dir |-> FALSE, size |-> 100]) @@
  (<<"data", "a", "2">> :> [dir |-> FALSE, size |-> 200]) @@
  (<<"data", "b">> :> [dir |-> TRUE, size |-> 0]) @@
  (<<"data", "b", "h">> :> [dir |-> FALSE, size |-> 7]) @@
  (<<"data", "c">> :> [dir |-> TRUE, size |-> 0]) @@
  (<<"data", "c", "1">> :> [dir |-> FALSE, size |-> 50])

Paths == DOMAIN Tree

\* the two layouts the specifications start from
SmallLayout == {Root, Users, Home, <<"Users", "me", "x">>, <<"Users", "f">>}
MidLayout ==
  {Users, <<"Users", "f">>, <<"Users", "d5">>, <<"Users", "d5", "z">>,
   <<"Users", "d6">>, <<"Users", "d6", "z">>}
DuoLayout ==
  {Users, <<"Users", "d5">>, <<"Users", "d5", "z">>,
   <<"Users", "d6">>, <<"Users", "d6", "z">>}
DataLayout == {p \in Paths : Len(p) >= 1 /\ p[1] = "data"}
WideLayout ==
  {p \in Paths \ DataLayout : p # Root /\ (Len(p) >= 2 => p[2] # "me")}

\* the directories whose content cannot be read
Unreadable == {<<"data", "b">>}

IsPrefix(p, q) == Len(p) <= Len(q) /\ SubSeq(q, 1, Len(p)) = p
Children(files, p) == {q \in files : Len(q) = Len(p) + 1 /\ IsPrefix(p, q)}

RECURSIVE SumSizes(_)
SumSizes(S) ==
  IF S = {} THEN 0
  ELSE LET q == CHOOSE x \in S : TRUE IN Tree[q].size + SumSizes(S \ {q})

\* what the walk of q can read: nothing beneath an unreadable directory
Readable(files, q) ==
  {f \in files : IsPrefix(q, f)
                   /\ ~\E u \in Unreadable : u # f /\ IsPrefix(u, f)}

\* fast mode: a file's length, or the full recursive walk of a directory,
\* which sums what it can read
SizeOf(files, q) ==
  IF Tree[q].dir
  THEN SumSizes({f \in Readable(files, q) : ~Tree[f].dir})
  ELSE Tree[q].size

\* the error an entry carries: a directory the walk could not read
ErrorOf(files, q) ==
  IF \E u \in Unreadable \cap files : IsPrefix(q, u) THEN "unreadable" ELSE ""

EntryOf(files, q) ==
  [path |-> q, name |-> q[Len(q)], size |-> SizeOf(files, q),
   is_directory |-> Tree[q].dir, error |-> ErrorOf(files, q)]

RECURSIVE SetToSeq(_)
SetToSeq(S) ==
  IF S = {} THEN <<>>
  ELSE LET q == CHOOSE x \in S : TRUE IN <<q>> \o SetToSeq(S \ {q})

\* the result of the scan command: the entries of p, largest first
Listing(files, p) ==
  LET ents == SetToSeq({EntryOf(files, q) : q \in Children(files, p)})
  IN SortSeq(ents, LAMBDA a, b : a.size > b.size)

\* the root of a scan must exist and be a directory that can be read
Listable(files, p) == p \in files /\ Tree[p].dir /\ p \notin Unreadable

(***************************************************************************)
(* State of the App component, of its pending asynchronous operations and  *)
(* of the scan and delete commands they invoke.                            *)
(***************************************************************************)
VARIABLES
  fs,               \* the paths that exist on disk
  currentPath,      \* useState('') after initialize()
  items,            \* displayed scan result
  isScanning,
  selectedItems,    \* a JS Set: its members in insertion order
  pathHistory,
  stats,
  scanCache,        \* { path: { items, stats, timestamp } }
  progressPercent,
  scanProgress,
  deleteHistory,    \* localStorage 'delete-history'
  inserted,         \* every record put into the history since it was last
                    \* cleared, newest first
  walk,             \* a full-mode aggregation of one directory
  plain,            \* the App without a cache, given the same operations
  startup,          \* the initialize effect, its timers and its flags
  modal,            \* DeleteConfirmModal and the onConfirm it awaits
  ops,              \* pending async calls of startScan, enterDirectory,
                    \* the pre-warm callback and deleteSelected
  nextId,           \* identity of the next operation
  clock,            \* Date.now(), which advances between two deletions
  scansStarted,     \* foreground scans started by the user so far
  deletesStarted,   \* confirmed deletions so far
  clicks,           \* user actions so far
  lastWrite,        \* per path, the entry of the last completed scan, or
                    \* NoEntry after an invalidation
  event             \* the cache access, command outcome or progress event
                    \* of the last step, NoEvent for any other step

vars == <<fs, currentPath, items, isScanning, selectedItems, pathHistory,
          stats, scanCache, progressPercent, scanProgress, deleteHistory,
          inserted, walk, plain, startup, modal, startup, modal, ops, nextId, clock,
          scansStarted,
          deletesStarted, clicks, lastWrite, event>>

uiVars == <<currentPath, items, isScanning, selectedItems, pathHistory, stats,
            progressPercent, scanProgress>>

Range(s) == {s[i] : i \in 1..Len(s)}

\* a reduce without its initial value 0, which leaves the first size out
RECURSIVE SumItemSizesNoInit(_)
SumItemSizesNoInit(its) ==
  IF Len(its) <= 1 THEN 0
  ELSE its[Len(its)].size + SumItemSizesNoInit(SubSeq(its, 1, Len(its) - 1))

RECURSIVE SumItemSizes(_)
SumItemSizes(its) ==
  IF its = <<>> THEN 0 ELSE Head(its).size + SumItemSizes(Tail(its))

\* { count: result.items.length, totalSize: result.items.reduce(...) }
\* stats over the entries without an error only
StatsOfReadable(its) ==
  LET ok == SelectSeq(its, LAMBDA i : i.error = "")
  IN [count |-> Len(ok), totalSize |-> SumItemSizes(ok)]

StatsOf(its) == [count |-> Len(its), totalSize |-> SumItemSizes(its)]

NoEntry == [items |-> <<>>, stats |-> StatsOf(<<>>), timestamp |-> 0]
\* an entry that takes the displayed stats instead of the scan's newStats
MakeEntryDisplayed(its, now) == [items |-> its, stats |-> stats, timestamp |-> now]

\* an entry that stores the items displayed when the scan was started
MakeEntryShown(its, now) == [items |-> items, stats |-> StatsOf(its), timestamp |-> now]

MakeEntry(its, now) == [items |-> its, stats |-> StatsOf(its), timestamp |-> now]

\* a put without the spread of prev: setScanCache({ [path]: entry })
CachePutAlone(prev, p, entry) == [q \in {p} |-> entry]

\* setScanCache(prev => ({ ...prev, [path]: entry }))
CachePut(prev, p, entry) ==
  [q \in DOMAIN prev \cup {p} |-> IF q = p THEN entry ELSE prev[q]]

\* an invalidation that drops the whole cache: setScanCache({})
CacheDeleteAll(prev, p) == [q \in {} |-> prev[q]]

\* an invalidation that deletes nothing: delete newCache.currentPath
CacheDeleteNone(prev, p) == prev

\* setScanCache(prev => { const c = { ...prev }; delete c[path]; return c })
CacheDelete(prev, p) == [q \in DOMAIN prev \ {p} |-> prev[q]]

EmptyCache == [q \in {} |-> NoEntry]

\* a call of the scan or delete command; last is the current of the last
\* event it emitted
NoBackend == [state |-> "idle", total |-> 0, count |-> 0, pend |-> {},
              result |-> <<>>, last |-> 0]

\* a pending operation: where it stands and what its closure captured
NewOp(id, kind, pc, path, cacheKeys) ==
  [id |-> id, kind |-> kind, pc |-> pc, path |-> path,
   cacheKeys |-> cacheKeys, listening |-> FALSE, fromDelete |-> FALSE,
   todo |-> <<>>, paths |-> <<>>, records |-> <<>>, be |-> NoBackend,
   srcItems |-> <<>>, trigKeys |-> {}, scanned |-> {}, seen |-> {}]

NoEvent == [type |-> "init", id |-> 0, path |-> NoPath, alerts |-> <<>>,
            receivers |-> {}, payload |-> [current |-> 0, total |-> 0, percent |-> 0],
            prevCurrent |-> 0, paths |-> <<>>, result |-> <<>>, seen |-> {},
            done |-> FALSE,
            srcItems |-> <<>>, trigKeys |-> {}, scanned |-> {}]
Ev(type, id, path, alerts) ==
  [NoEvent EXCEPT !.type = type, !.id = id, !.path = path, !.alerts = alerts]

\* identities of the operations a run can start: a scan and its pre-warm,
\* a deletion, its rescan and the pre-warm of that
OpIds == 1..(2 * MaxScans + 3 * MaxDeletes)

\* a slot of ops that holds no operation
FreeOp == NewOp(0, "none", "free", NoPath, {})

Replace(o, n) == [ops EXCEPT ![o.id] = n]
Remove(o) == [ops EXCEPT ![o.id] = FreeOp]
Add(S, n) == [S EXCEPT ![n.id] = n]

\* every pending operation sees the cache update (a put by an operation of
\* that kind, or an invalidation) of path p
Note(S, kind, p) ==
  [id \in DOMAIN S |-> IF S[id].pc # "free"
                       THEN [S[id] EXCEPT !.seen = @ \cup {<<kind, p>>}]
                       ELSE S[id]]

HasOp(id) == ops[id].pc # "free"
OpOf(id) == ops[id]

\* a user action, bounded; any other step
Click == clicks < MaxClicks /\ clicks' = clicks + 1
Background == UNCHANGED clicks

\* the App without a cache before any operation
NoPlain == [currentPath |-> NoPath, pathHistory |-> <<>>, items |-> <<>>,
            stats |-> [count |-> 0, totalSize |-> 0]]

\* initialize has run to its end with the permission granted
Started == [check |-> "true", race |-> "true", timeout |-> "fired",
            guideTimer |-> "off", now |-> 0, guideAt |-> 0,
            isLoading |-> FALSE, hasFullDiskAccess |-> TRUE,
            showPermissionGuide |-> FALSE]

\* the modal is closed
NoModal == [isOpen |-> FALSE, isDeleting |-> FALSE, items |-> {},
            pending |-> 0, settled |-> "none"]

\* the variables of the App, its operations and its commands
appVars == <<fs, currentPath, items, isScanning, selectedItems, pathHistory,
             stats, scanCache, progressPercent, scanProgress, deleteHistory,
             inserted, walk, plain, ops, nextId, clock, scansStarted,
             deletesStarted, clicks, lastWrite, event>>

\* no full-mode aggregation has been asked for
NoWalk == [state |-> "idle", n |-> 0, shape |-> "flat", visited |-> 0,
           size |-> 0, error |-> FALSE]

InitWith(layout) ==
  /\ fs = layout
  /\ currentPath = Users
  /\ items = <<>>
  /\ isScanning = FALSE
  /\ selectedItems = <<>>
  /\ pathHistory = <<>>
  /\ stats = [count |-> 0, totalSize |-> 0]
  /\ scanCache = EmptyCache
  /\ progressPercent = 0
  /\ scanProgress = [current |-> 0, total |-> 0]
  /\ deleteHistory = <<>>
  /\ inserted = <<>>
  /\ walk = NoWalk
  /\ plain = NoPlain
  /\ startup = Started
  /\ modal = NoModal
  /\ ops = [id \in OpIds |-> FreeOp]
  /\ nextId = 1
  /\ clock = 1
  /\ scansStarted = 0
  /\ deletesStarted = 0
  /\ clicks = 0
  /\ lastWrite = [p \in Paths |-> NoEntry]
  /\ event = NoEvent

Init == InitWith(SmallLayout)

\* a startScan that serves a cached entry even when the refresh is forced
StartScanCached(forceRefresh, cp, cache, sel, base, fromDel) ==
  IF cp = NoPath
  THEN /\ UNCHANGED <<items, stats, isScanning, progressPercent, nextId>>
       /\ selectedItems' = sel
       /\ ops' = base
  ELSE IF cp \in DOMAIN cache
  THEN /\ items' = cache[cp].items
       /\ stats' = cache[cp].stats
       /\ UNCHANGED <<isScanning, progressPercent, nextId>>
       /\ selectedItems' = sel
       /\ ops' = base
  ELSE /\ isScanning' = TRUE
       /\ items' = <<>>
       /\ selectedItems' = <<>>
       /\ progressPercent' = 0
       /\ stats' = stats
       /\ ops' = Add(base, [NewOp(nextId, "startScan", "timer", cp, DOMAIN cache)
                           EXCEPT !.fromDelete = fromDel])
       /\ nextId' = nextId + 1

(***************************************************************************)
(* startScan(forceRefresh), up to its first await.  cp and cache are the   *)
(* currentPath and scanCache of the render whose closure runs; sel is the  *)
(* selection the caller leaves; base the pending operations it leaves.     *)
(***************************************************************************)
StartScan(forceRefresh, cp, cache, sel, base, fromDel) ==
  IF cp = NoPath
  THEN /\ UNCHANGED <<items, stats, isScanning, progressPercent, nextId>>
       /\ selectedItems' = sel
       /\ ops' = base
  ELSE IF ~forceRefresh /\ cp \in DOMAIN cache
  THEN /\ items' = cache[cp].items
       /\ stats' = cache[cp].stats
       /\ UNCHANGED <<isScanning, progressPercent, nextId>>
       /\ selectedItems' = sel
       /\ ops' = base
  ELSE /\ isScanning' = TRUE
       /\ items' = <<>>
       /\ selectedItems' = <<>>
       /\ progressPercent' = 0
       /\ stats' = stats
       /\ ops' = Add(base, [NewOp(nextId, "startScan", "timer", cp, DOMAIN cache)
                           EXCEPT !.fromDelete = fromDel])
       /\ nextId' = nextId + 1

\* the shortcut directory buttons: "/", "/Users" and the home directory
ShortcutPaths == {Root, Users, Home}

ShortcutDir(p) ==
  /\ Click
  /\ currentPath' = p
  /\ pathHistory' = <<>>
  /\ event' = NoEvent
  /\ UNCHANGED <<fs, items, isScanning, selectedItems, stats, scanCache,
                 progressPercent, scanProgress, deleteHistory, inserted, walk, plain, startup, modal, ops, nextId,
                 clock, scansStarted, deletesStarted, lastWrite>>

\* selectDirectory: the dialog returns a directory, or null when cancelled
SelectDirectory(p) ==
  /\ Click
  /\ p \in fs /\ Tree[p].dir
  /\ currentPath' = p
  /\ pathHistory' = <<>>
  /\ event' = NoEvent
  /\ UNCHANGED <<fs, items, isScanning, selectedItems, stats, scanCache,
                 progressPercent, scanProgress, deleteHistory, inserted, walk, plain, startup, modal, ops, nextId,
                 clock, scansStarted, deletesStarted, lastWrite>>

\* the "->" button
ClearHistory ==
  /\ Click
  /\ pathHistory # <<>>
  /\ pathHistory' = <<>>
  /\ event' = NoEvent
  /\ UNCHANGED <<fs, currentPath, items, isScanning, selectedItems, stats,
                 scanCache, progressPercent, scanProgress, deleteHistory, inserted, walk, plain, startup, modal, ops,
                 nextId, clock, scansStarted, deletesStarted, lastWrite>>

\* the Scan button: drops the entry of currentPath, then startScan(true)
ScanButton ==
  /\ Click
  /\ ~isScanning /\ currentPath # NoPath
  /\ scansStarted < MaxScans
  /\ scanCache' = CacheDelete(scanCache, currentPath)
  /\ lastWrite' = [lastWrite EXCEPT ![currentPath] = NoEntry]
  /\ StartScan(TRUE, currentPath, scanCache, selectedItems,
               Note(ops, "scanButton", currentPath), FALSE)
  /\ scansStarted' = scansStarted + 1
  /\ event' = [Ev("scanButton", nextId, currentPath, <<>>)
                 EXCEPT !.trigKeys = DOMAIN scanCache]
  /\ UNCHANGED <<fs, currentPath, pathHistory, scanProgress, deleteHistory, inserted, walk, plain, startup, modal,
                 clock, deletesStarted>>

\* the displayed item of path p: items.find(i => i.path === p)
ItemAt(its, p) == Head(SelectSeq(its, LAMBDA i : i.path = p))

\* enterDirectory(item), up to its first await
EnterDirectory(p) ==
  LET item == ItemAt(items, p) IN
  /\ Click
  /\ p \in {it.path : it \in Range(items)}
  /\ IF ~item.is_directory
     THEN /\ event' = Ev("enterFile", 0, p, <<>>)
          /\ UNCHANGED <<uiVars, ops, nextId, scansStarted>>
     ELSE /\ pathHistory' = Append(pathHistory, currentPath)
          /\ currentPath' = item.path
          /\ IF item.path \in DOMAIN scanCache
             THEN /\ items' = scanCache[item.path].items
                  /\ stats' = scanCache[item.path].stats
                  /\ event' = Ev("enterHit", 0, item.path, <<>>)
                  /\ UNCHANGED <<isScanning, progressPercent, ops, nextId,
                                 scansStarted>>
             ELSE /\ scansStarted < MaxScans
                  /\ isScanning' = TRUE
                  /\ progressPercent' = 0
                  /\ ops' = Add(ops, NewOp(nextId, "enterDirectory", "timer",
                                            item.path, {}))
                  /\ nextId' = nextId + 1
                  /\ scansStarted' = scansStarted + 1
                  /\ event' = Ev("enterMiss", nextId, item.path, <<>>)
                  /\ UNCHANGED <<items, stats>>
          /\ UNCHANGED <<selectedItems, scanProgress>>
  /\ UNCHANGED <<fs, scanCache, deleteHistory, inserted, walk, plain, startup, modal, clock, deletesStarted, lastWrite>>

\* a goBack that restores the path and forgets to pop it
GoBackNoPop ==
  /\ Click
  /\ Len(pathHistory) # 0
  /\ LET lastPath == pathHistory[Len(pathHistory)] IN
       /\ currentPath' = lastPath
       /\ IF lastPath \in DOMAIN scanCache
          THEN /\ items' = scanCache[lastPath].items
               /\ stats' = scanCache[lastPath].stats
               /\ event' = Ev("backHit", 0, lastPath, <<>>)
          ELSE /\ UNCHANGED <<items, stats>>
               /\ event' = Ev("backMiss", 0, lastPath, <<>>)
  /\ UNCHANGED <<fs, isScanning, selectedItems, pathHistory, scanCache,
                 progressPercent, scanProgress, deleteHistory, inserted, walk,
                 plain, startup, modal, ops, nextId, clock, scansStarted,
                 deletesStarted, lastWrite>>

\* a goBack that restores the path only and leaves the list as it is
GoBackPathOnly ==
  /\ Click
  /\ Len(pathHistory) # 0
  /\ LET lastPath == pathHistory[Len(pathHistory)] IN
       /\ pathHistory' = SubSeq(pathHistory, 1, Len(pathHistory) - 1)
       /\ currentPath' = lastPath
       /\ event' = Ev("backMiss", 0, lastPath, <<>>)
  /\ UNCHANGED <<fs, items, stats, isScanning, selectedItems, scanCache,
                 progressPercent, scanProgress, deleteHistory, inserted, walk, plain, startup, modal,
                 ops, nextId, clock, scansStarted, deletesStarted, lastWrite>>

GoBack ==
  /\ Click
  /\ Len(pathHistory) # 0
  /\ LET lastPath == pathHistory[Len(pathHistory)] IN
       /\ pathHistory' = SubSeq(pathHistory, 1, Len(pathHistory) - 1)
       /\ currentPath' = lastPath
       /\ IF lastPath \in DOMAIN scanCache
          THEN /\ items' = scanCache[lastPath].items
               /\ stats' = scanCache[lastPath].stats
               /\ event' = Ev("backHit", 0, lastPath, <<>>)
          ELSE /\ UNCHANGED <<items, stats>>
               /\ event' = Ev("backMiss", 0, lastPath, <<>>)
  /\ UNCHANGED <<fs, isScanning, selectedItems, scanCache, progressPercent,
                 scanProgress, deleteHistory, inserted, walk, plain, startup, modal, ops, nextId, clock, scansStarted,
                 deletesStarted, lastWrite>>

Without(s, x) == SelectSeq(s, LAMBDA y : y # x)

ToggleSelection(itemPath) ==
  /\ Click
  /\ itemPath \in {it.path : it \in Range(items)}
  /\ selectedItems' = IF itemPath \in Range(selectedItems)
                      THEN Without(selectedItems, itemPath)
                      ELSE Append(selectedItems, itemPath)
  /\ event' = NoEvent
  /\ UNCHANGED <<fs, currentPath, items, isScanning, pathHistory, stats,
                 scanCache, progressPercent, scanProgress, deleteHistory, inserted, walk, plain, startup, modal, ops,
                 nextId, clock, scansStarted, deletesStarted, lastWrite>>

\* Array.from(selectedItems).map(path => items.find(...)).filter(Boolean)
RECURSIVE ItemsToDelete(_, _)
ItemsToDelete(sel, its) ==
  IF sel = <<>> THEN <<>>
  ELSE LET found == SelectSeq(its, LAMBDA i : i.path = Head(sel))
       IN (IF found = <<>> THEN <<>> ELSE <<Head(found)>>)
            \o ItemsToDelete(Tail(sel), its)

\* deleteSelected, up to the await of delete_items
DeleteSelected(confirmed) ==
  /\ Click
  /\ Len(selectedItems) # 0
  /\ IF ~confirmed
     THEN /\ event' = NoEvent
          /\ UNCHANGED <<ops, nextId, deletesStarted>>
     ELSE /\ deletesStarted < MaxDeletes
          /\ Len(selectedItems) <= MaxBatch
          /\ ops' = Add(ops,
               [NewOp(nextId, "deleteSelected", "invoked", currentPath,
                      DOMAIN scanCache)
                  EXCEPT !.paths = selectedItems,
                         !.records = ItemsToDelete(selectedItems, items),
                         !.be.state = "running"])
          /\ nextId' = nextId + 1
          /\ deletesStarted' = deletesStarted + 1
          /\ event' = NoEvent
  /\ UNCHANGED <<fs, uiVars, scanCache, deleteHistory, inserted, walk, plain, startup, modal, clock, scansStarted,
                 lastWrite>>

(***************************************************************************)
(* The scan command (scan_directory_fast): the children of the root are    *)
(* measured in parallel; each unit adds one to the shared counter and then *)
(* emits 'scan-progress' with the count it obtained.                       *)
(***************************************************************************)
Scanning(o) == o.kind # "deleteSelected" /\ o.pc = "invoked"

Percent(current, total) == IF total = 0 THEN 100 ELSE (current * 100) \div total

\* listen('scan-progress', handler): every registered handler gets the event
Listeners == {ops[id] : id \in {i \in DOMAIN ops : ops[i].listening}}

Deliver(payload) ==
  IF Listeners = {}
  THEN UNCHANGED <<progressPercent, scanProgress>>
  ELSE /\ progressPercent' = payload.percent
       /\ scanProgress' = [current |-> payload.current, total |-> payload.total]

BackendFrame ==
  UNCHANGED <<fs, currentPath, items, isScanning, selectedItems, pathHistory,
              stats, scanCache, deleteHistory, inserted, walk, plain, startup,
              modal, nextId, clock, scansStarted, deletesStarted, lastWrite>>

\* step 1: list the immediate children, or fail as a whole
BackendList(id) ==
  LET o == OpOf(id) IN
  /\ HasOp(id)
  /\ Background
  /\ Scanning(o) /\ o.be.state = "running"
  /\ ops' = Replace(o,
         IF Listable(fs, o.path)
         THEN [o EXCEPT !.be = [state |-> "work", count |-> 0, pend |-> {},
                                 total |-> Cardinality(Children(fs, o.path)),
                                 result |-> Listing(fs, o.path),
                                 last |-> 0]]
         ELSE [o EXCEPT !.be.state = "err"])
  /\ event' = NoEvent
  /\ UNCHANGED <<progressPercent, scanProgress>>
  /\ BackendFrame

\* a unit completes: completed.fetch_add(1) + 1
BackendCount(id) ==
  LET o == OpOf(id) IN
  /\ HasOp(id)
  /\ Background
  /\ Scanning(o) /\ o.be.state = "work"
  /\ o.be.count < o.be.total
  /\ Cardinality(o.be.pend) < Workers
  /\ ops' = Replace(o, [o EXCEPT !.be.count = @ + 1,
                                 !.be.pend = @ \cup {o.be.count + 1}])
  /\ event' = NoEvent
  /\ UNCHANGED <<progressPercent, scanProgress>>
  /\ BackendFrame

\* the unit that counted c emits its event, unless the throttle drops it
BackendEmit(id, c, throttled) ==
  LET o == OpOf(id) IN
  /\ HasOp(id)
  /\ Background
  /\ Scanning(o) /\ o.be.state = "work"
  /\ c \in o.be.pend
  /\ ops' = Replace(o, [o EXCEPT !.be.pend = @ \ {c},
                                 !.be.last = IF throttled THEN @ ELSE c])
  /\ LET payload == [current |-> c, total |-> o.be.total,
                     percent |-> Percent(c, o.be.total)]
     IN IF throttled
        THEN /\ event' = NoEvent
             /\ UNCHANGED <<progressPercent, scanProgress>>
        ELSE /\ event' = [Ev("progress", o.id, o.path, <<>>)
                            EXCEPT !.payload = payload,
                                   !.prevCurrent = o.be.last,
                                   !.receivers = {l.id : l \in Listeners}]
             /\ Deliver(payload)
  /\ BackendFrame

\* all units are done: the final 100% event, then the result is returned
BackendFinish(id) ==
  LET o == OpOf(id) IN
  /\ HasOp(id)
  /\ Background
  /\ Scanning(o) /\ o.be.state = "work"
  /\ o.be.count = o.be.total /\ o.be.pend = {}
  /\ ops' = Replace(o, [o EXCEPT !.be.state = "ok", !.be.last = o.be.total])
  /\ LET payload == [current |-> o.be.total, total |-> o.be.total,
                     percent |-> 100]
     IN /\ event' = [Ev("progressFinal", o.id, o.path, <<>>)
                       EXCEPT !.payload = payload,
                              !.prevCurrent = o.be.last,
                              !.receivers = {l.id : l \in Listeners}]
        /\ Deliver(payload)
  /\ BackendFrame

\* the whole command without another step in between: the listing, every
\* unit, and of the events the last one (100%), which overwrites the others
BackendScan(id) ==
  LET o == OpOf(id) IN
  /\ HasOp(id)
  /\ Background
  /\ Scanning(o) /\ o.be.state = "running"
  /\ ops' = Replace(o,
         IF Listable(fs, o.path)
         THEN [o EXCEPT !.be = [state |-> "ok", pend |-> {},
                                 total |-> Cardinality(Children(fs, o.path)),
                                 count |-> Cardinality(Children(fs, o.path)),
                                 result |-> Listing(fs, o.path),
                                 last |-> Cardinality(Children(fs, o.path))]]
         ELSE [o EXCEPT !.be.state = "err"])
  /\ LET n == Cardinality(Children(fs, o.path))
         payload == [current |-> n, total |-> n, percent |-> 100]
     IN IF Listable(fs, o.path)
        THEN /\ event' = [Ev("progressFinal", o.id, o.path, <<>>)
                            EXCEPT !.payload = payload,
                                   !.receivers = {l.id : l \in Listeners}]
             /\ Deliver(payload)
        ELSE /\ event' = NoEvent
             /\ UNCHANGED <<progressPercent, scanProgress>>
  /\ BackendFrame

\* delete_items moves the paths to the trash one by one and fails as a batch
\* at the first path it cannot move: moved is the number of paths it moved
BackendDelete(id, moved) ==
  LET o == OpOf(id) IN
  /\ HasOp(id)
  /\ Background
  /\ o.kind = "deleteSelected" /\ o.pc = "invoked" /\ o.be.state = "running"
  /\ moved <= Len(o.paths)
  /\ \A i \in 1..moved : o.paths[i] \in fs
  /\ fs' = {f \in fs : \A i \in 1..moved : ~IsPrefix(o.paths[i], f)}
  /\ ops' = Replace(o, [o EXCEPT !.be.state =
                          IF moved = Len(o.paths) THEN "ok" ELSE "err"])
  /\ event' = NoEvent
  /\ UNCHANGED <<uiVars, scanCache, deleteHistory, inserted, walk, plain, startup, modal, nextId, clock, scansStarted,
                 deletesStarted, lastWrite>>

(***************************************************************************)
(* The continuations of startScan and enterDirectory.                      *)
(***************************************************************************)
\* after the 50 ms timer: listen('scan-progress'), then invoke the scan
StartScanListen(id) ==
  LET o == OpOf(id) IN
  /\ HasOp(id)
  /\ Background
  /\ o.kind = "startScan" /\ o.pc = "timer"
  /\ ops' = Replace(o, [o EXCEPT !.pc = "invoked", !.listening = TRUE,
                                 !.be.state = "running"])
  /\ event' = NoEvent
  /\ UNCHANGED <<fs, uiVars, scanCache, deleteHistory, inserted, walk, plain, startup, modal, nextId, clock,
                 scansStarted, deletesStarted, lastWrite>>

\* the scan resolved: cache the result, arm the pre-warm timer, display
StartScanResolve(id) ==
  LET o == OpOf(id) IN
  /\ HasOp(id)
  /\ Background
  /\ o.kind = "startScan" /\ o.pc = "invoked" /\ o.be.state = "ok"
  /\ LET result == o.be.result
         entry == MakeEntry(result, clock)
     IN /\ scanCache' = CachePut(scanCache, o.path, entry)
        /\ lastWrite' = [lastWrite EXCEPT ![o.path] = entry]
        /\ ops' = Add(Note(Remove(o), "startScan", o.path),
                       [NewOp(nextId, "prewarm", "timer", NoPath, o.cacheKeys)
                          EXCEPT !.srcItems = result])
        /\ items' = result
        /\ stats' = StatsOf(result)
  /\ nextId' = nextId + 1
  /\ isScanning' = FALSE
  /\ progressPercent' = 0
  /\ event' = [Ev("scanResolved", o.id, o.path,
                  IF o.fromDelete THEN <<"deleted">> ELSE <<>>)
                 EXCEPT !.seen = o.seen, !.result = o.be.result]
  /\ UNCHANGED <<fs, currentPath, selectedItems, pathHistory, scanProgress,
                 deleteHistory, inserted, walk, plain, startup, modal, clock, scansStarted, deletesStarted>>

\* the scan rejected: alert, then the finally block
StartScanReject(id) ==
  LET o == OpOf(id) IN
  /\ HasOp(id)
  /\ Background
  /\ o.kind = "startScan" /\ o.pc = "invoked" /\ o.be.state = "err"
  /\ ops' = Remove(o)
  /\ isScanning' = FALSE
  /\ progressPercent' = 0
  /\ event' = Ev("scanRejected", o.id, o.path,
                 IF o.fromDelete THEN <<"scanFailed", "deleted">>
                 ELSE <<"scanFailed">>)
  /\ UNCHANGED <<fs, currentPath, items, selectedItems, pathHistory, stats,
                 scanCache, scanProgress, deleteHistory, inserted, walk, plain, startup, modal, nextId, clock,
                 scansStarted, deletesStarted, lastWrite>>

EnterListen(id) ==
  LET o == OpOf(id) IN
  /\ HasOp(id)
  /\ Background
  /\ o.kind = "enterDirectory" /\ o.pc = "timer"
  /\ ops' = Replace(o, [o EXCEPT !.pc = "invoked", !.listening = TRUE,
                                 !.be.state = "running"])
  /\ event' = NoEvent
  /\ UNCHANGED <<fs, uiVars, scanCache, deleteHistory, inserted, walk, plain, startup, modal, nextId, clock,
                 scansStarted, deletesStarted, lastWrite>>

\* `await listen(...)` rejects: it stands before the try, so startScan ends
\* there with nothing undone (after a deletion, in the catch of deleteSelected)
StartScanListenReject(id) ==
  LET o == OpOf(id) IN
  /\ HasOp(id)
  /\ Background
  /\ o.kind = "startScan" /\ o.pc = "timer"
  /\ ops' = Remove(o)
  /\ event' = Ev("listenRejected", o.id, o.path,
                 IF o.fromDelete THEN <<"deleteFailed">> ELSE <<>>)
  /\ UNCHANGED <<fs, uiVars, scanCache, deleteHistory, inserted, walk, plain, startup, modal, nextId, clock,
                 scansStarted, deletesStarted, lastWrite>>

\* the same in enterDirectory
EnterListenReject(id) ==
  LET o == OpOf(id) IN
  /\ HasOp(id)
  /\ Background
  /\ o.kind = "enterDirectory" /\ o.pc = "timer"
  /\ ops' = Remove(o)
  /\ event' = Ev("listenRejected", o.id, o.path, <<>>)
  /\ UNCHANGED <<fs, uiVars, scanCache, deleteHistory, inserted, walk, plain, startup, modal, nextId, clock,
                 scansStarted, deletesStarted, lastWrite>>

EnterResolve(id) ==
  LET o == OpOf(id) IN
  /\ HasOp(id)
  /\ Background
  /\ o.kind = "enterDirectory" /\ o.pc = "invoked" /\ o.be.state = "ok"
  /\ LET result == o.be.result
         entry == MakeEntry(result, clock)
     IN /\ scanCache' = CachePut(scanCache, o.path, entry)
        /\ lastWrite' = [lastWrite EXCEPT ![o.path] = entry]
        /\ items' = result
        /\ stats' = StatsOf(result)
  /\ ops' = Note(Remove(o), "enterDirectory", o.path)
  /\ isScanning' = FALSE
  /\ progressPercent' = 0
  /\ event' = [Ev("enterResolved", o.id, o.path, <<>>)
                 EXCEPT !.seen = o.seen, !.result = o.be.result]
  /\ UNCHANGED <<fs, currentPath, selectedItems, pathHistory, scanProgress,
                 deleteHistory, inserted, walk, plain, startup, modal, nextId, clock, scansStarted, deletesStarted>>

\* console.error only, then the finally block
EnterReject(id) ==
  LET o == OpOf(id) IN
  /\ HasOp(id)
  /\ Background
  /\ o.kind = "enterDirectory" /\ o.pc = "invoked" /\ o.be.state = "err"
  /\ ops' = Remove(o)
  /\ isScanning' = FALSE
  /\ progressPercent' = 0
  /\ event' = Ev("enterRejected", o.id, o.path, <<>>)
  /\ UNCHANGED <<fs, currentPath, items, selectedItems, pathHistory, stats,
                 scanCache, scanProgress, deleteHistory, inserted, walk, plain, startup, modal, nextId, clock,
                 scansStarted, deletesStarted, lastWrite>>

(***************************************************************************)
(* The pre-warm callback of startScan (setTimeout 100 ms).                 *)
(***************************************************************************)
Min(a, b) == IF a < b THEN a ELSE b

\* result.items.filter(item => item.is_directory).slice(0, 5)
TopDirs(result) ==
  LET dirs == SelectSeq(result, LAMBDA i : i.is_directory)
  IN SubSeq(dirs, 1, Min(PrewarmTop, Len(dirs)))

\* if (!scanCache[item.path]): scanCache is the one startScan closed over
RECURSIVE SkipCached(_, _)
SkipCached(todo, cacheKeys) ==
  IF todo = <<>> THEN <<>>
  ELSE IF Head(todo) \in cacheKeys THEN SkipCached(Tail(todo), cacheKeys)
  ELSE todo

\* the for loop, up to its next await or to its end
PrewarmNext(o) ==
  LET rest == SkipCached(o.todo, o.cacheKeys)
  IN IF rest = <<>>
     THEN [o EXCEPT !.pc = "done", !.todo = <<>>, !.be = NoBackend]
     ELSE [o EXCEPT !.pc = "invoked", !.path = Head(rest), !.todo = Tail(rest),
                    !.be = [NoBackend EXCEPT !.state = "running"],
                    !.scanned = @ \cup {Head(rest)}, !.seen = {}]

PrewarmEvent(type, o, n) ==
  [Ev(type, o.id, o.path, <<>>)
     EXCEPT !.seen = o.seen, !.result = o.be.result, !.done = (n.pc = "done"),
            !.srcItems = n.srcItems, !.trigKeys = n.trigKeys,
            !.scanned = n.scanned]

PrewarmStart(id) ==
  LET o == OpOf(id) IN
  /\ HasOp(id)
  /\ Background
  /\ o.kind = "prewarm" /\ o.pc = "timer"
  /\ LET n == PrewarmNext([o EXCEPT
                  !.todo = [i \in 1..Len(TopDirs(o.srcItems)) |->
                              TopDirs(o.srcItems)[i].path],
                  !.trigKeys = DOMAIN scanCache])
     IN /\ ops' = IF n.pc = "done" THEN Remove(o) ELSE Replace(o, n)
        /\ event' = PrewarmEvent("prewarmStart", o, n)
  /\ UNCHANGED <<fs, uiVars, scanCache, deleteHistory, inserted, walk, plain, startup, modal, nextId, clock,
                 scansStarted, deletesStarted, lastWrite>>

PrewarmResolve(id) ==
  LET o == OpOf(id) IN
  /\ HasOp(id)
  /\ Background
  /\ o.kind = "prewarm" /\ o.pc = "invoked" /\ o.be.state = "ok"
  /\ LET entry == MakeEntry(o.be.result, clock)
         n == PrewarmNext(o)
     IN /\ scanCache' = CachePut(scanCache, o.path, entry)
        /\ lastWrite' = [lastWrite EXCEPT ![o.path] = entry]
        /\ ops' = LET S == Note(Remove(o), "prewarm", o.path)
                   IN IF n.pc = "done" THEN S ELSE Add(S, n)
        /\ event' = PrewarmEvent("prewarmResolved", o, n)
  /\ UNCHANGED <<fs, uiVars, deleteHistory, inserted, walk, plain, startup, modal, nextId, clock, scansStarted,
                 deletesStarted>>

\* a catch around the whole loop: the first rejected child ends the pre-warm
PrewarmRejectStop(id) ==
  LET o == OpOf(id) IN
  /\ HasOp(id)
  /\ Background
  /\ o.kind = "prewarm" /\ o.pc = "invoked" /\ o.be.state = "err"
  /\ ops' = Remove(o)
  /\ event' = PrewarmEvent("prewarmRejected", o, [o EXCEPT !.pc = "done"])
  /\ UNCHANGED <<fs, uiVars, scanCache, deleteHistory, inserted, walk, plain, startup, modal, nextId, clock,
                 scansStarted, deletesStarted, lastWrite>>

\* catch (e) { }: silently on to the next directory
PrewarmReject(id) ==
  LET o == OpOf(id) IN
  /\ HasOp(id)
  /\ Background
  /\ o.kind = "prewarm" /\ o.pc = "invoked" /\ o.be.state = "err"
  /\ LET n == PrewarmNext(o)
     IN /\ ops' = IF n.pc = "done" THEN Remove(o) ELSE Replace(o, n)
        /\ event' = PrewarmEvent("prewarmRejected", o, n)
  /\ UNCHANGED <<fs, uiVars, scanCache, deleteHistory, inserted, walk, plain, startup, modal, nextId, clock,
                 scansStarted, deletesStarted, lastWrite>>

(***************************************************************************)
(* The continuation of deleteSelected.                                     *)
(***************************************************************************)
DeleteRecord(item, timestamp) ==
  [path |-> item.path, name |-> item.name, size |-> item.size,
   is_directory |-> item.is_directory, deleted_at |-> timestamp]

\* records that replace the stored ones: the history is written from the new
\* records alone
RECURSIVE UnshiftFresh(_, _, _)
UnshiftFresh(history, its, timestamp) ==
  IF its = <<>> THEN <<>>
  ELSE <<DeleteRecord(Head(its), timestamp)>>
         \o UnshiftFresh(history, Tail(its), timestamp)

\* itemsToDelete.forEach(item => deleteHistory.unshift({...}))
RECURSIVE UnshiftAll(_, _, _)
UnshiftAll(history, its, timestamp) ==
  IF its = <<>> THEN history
  ELSE UnshiftAll(<<DeleteRecord(Head(its), timestamp)>> \o history,
                  Tail(its), timestamp)

\* a cap that keeps the oldest records: deleteHistory.splice(0, length - 100)
SpliceHead(history) ==
  IF Len(history) > HistoryCap
  THEN SubSeq(history, Len(history) - HistoryCap + 1, Len(history))
  ELSE history

\* if (deleteHistory.length > 100) deleteHistory.splice(100)
Splice(history) ==
  IF Len(history) > HistoryCap THEN SubSeq(history, 1, HistoryCap) ELSE history

\* delete_items resolved: history, selection, cache entry of the closure's
\* currentPath, then startScan('fast', true) of the same closure
DeleteResolve(id) ==
  LET o == OpOf(id) IN
  /\ HasOp(id)
  /\ Background
  /\ o.kind = "deleteSelected" /\ o.pc = "invoked" /\ o.be.state = "ok"
  /\ deleteHistory' = Splice(UnshiftAll(deleteHistory, o.records, clock))
  /\ inserted' = UnshiftAll(inserted, o.records, clock)
  /\ clock' = clock + 1
  /\ scanCache' = CacheDelete(scanCache, o.path)
  /\ lastWrite' = [lastWrite EXCEPT ![o.path] = NoEntry]
  /\ StartScan(TRUE, o.path, [q \in o.cacheKeys |-> NoEntry], <<>>,
               Note(Remove(o), "deleteSelected", o.path), TRUE)
  /\ event' = [Ev("deleteResolved", o.id, o.path,
                  IF nextId' = nextId THEN <<"deleted">> ELSE <<>>)
                 EXCEPT !.paths = o.paths]
  /\ UNCHANGED <<fs, currentPath, pathHistory, scanProgress, scansStarted,
                 deletesStarted, walk, plain, startup, modal>>

\* a catch branch that also clears the selection
DeleteRejectClear(id) ==
  LET o == OpOf(id) IN
  /\ HasOp(id)
  /\ Background
  /\ o.kind = "deleteSelected" /\ o.pc = "invoked" /\ o.be.state = "err"
  /\ ops' = Remove(o)
  /\ selectedItems' = <<>>
  /\ event' = [Ev("deleteRejected", o.id, o.path, <<"deleteFailed">>)
                 EXCEPT !.paths = o.paths]
  /\ UNCHANGED <<fs, currentPath, items, isScanning, pathHistory, stats,
                 progressPercent, scanProgress, scanCache, deleteHistory,
                 inserted, walk, plain, startup, modal, nextId, clock, scansStarted, deletesStarted,
                 lastWrite>>

DeleteReject(id) ==
  LET o == OpOf(id) IN
  /\ HasOp(id)
  /\ Background
  /\ o.kind = "deleteSelected" /\ o.pc = "invoked" /\ o.be.state = "err"
  /\ ops' = Remove(o)
  /\ event' = [Ev("deleteRejected", o.id, o.path, <<"deleteFailed">>)
                 EXCEPT !.paths = o.paths]
  /\ UNCHANGED <<fs, uiVars, scanCache, deleteHistory, inserted, walk, plain, startup, modal, nextId, clock,
                 scansStarted, deletesStarted, lastWrite>>

\* clearDeleteHistory: localStorage.removeItem after window.confirm
ClearDeleteHistory(confirmed) ==
  /\ Click
  /\ IF confirmed
     THEN /\ deleteHistory' = <<>>
          /\ inserted' = <<>>
          /\ event' = Ev("historyCleared", 0, NoPath, <<"cleared">>)
     ELSE /\ UNCHANGED <<deleteHistory, inserted>>
          /\ event' = Ev("clearDeclined", 0, NoPath, <<>>)
  /\ UNCHANGED <<fs, uiVars, scanCache, walk, plain, startup, modal, ops, nextId, clock, scansStarted,
                 deletesStarted, lastWrite>>

(***************************************************************************)
(* The cached App on the small layout.                                     *)
(***************************************************************************)
Next ==
  \/ \E p \in ShortcutPaths : ShortcutDir(p)
  \/ \E p \in Paths : SelectDirectory(p)
  \/ ClearHistory
  \/ ScanButton
  \/ \E p \in Paths : EnterDirectory(p)
  \/ GoBack
  \/ \E p \in Paths : ToggleSelection(p)
  \/ \E confirmed \in BOOLEAN : DeleteSelected(confirmed)
  \/ \E confirmed \in BOOLEAN : ClearDeleteHistory(confirmed)
  \/ \E id \in OpIds : StartScanListen(id)
  \/ \E id \in OpIds : StartScanResolve(id)
  \/ \E id \in OpIds : StartScanReject(id)
  \/ \E id \in OpIds : EnterListen(id)
  \/ \E id \in OpIds : EnterResolve(id)
  \/ \E id \in OpIds : EnterReject(id)
  \/ \E id \in OpIds : PrewarmStart(id)
  \/ \E id \in OpIds : PrewarmResolve(id)
  \/ \E id \in OpIds : PrewarmReject(id)
  \/ \E id \in OpIds : DeleteResolve(id)
  \/ \E id \in OpIds : DeleteReject(id)
  \/ \E id \in OpIds : BackendScan(id)
  \/ \E id \in OpIds, moved \in 0..MaxBatch : BackendDelete(id, moved)

Spec == Init /\ [][Next]_vars

(***************************************************************************)
(* Scans with the units of the scan command as separate steps: the user    *)
(* scans and navigates, nothing is deleted.                                *)
(***************************************************************************)
\* children of one directory
MaxUnits == Cardinality(Paths)

NextProgress ==
  \/ ScanButton
  \/ \E p \in Paths : EnterDirectory(p)
  \/ GoBack
  \/ \E id \in OpIds : StartScanListen(id)
  \/ \E id \in OpIds : StartScanResolve(id)
  \/ \E id \in OpIds : EnterListen(id)
  \/ \E id \in OpIds : EnterResolve(id)
  \/ \E id \in OpIds : PrewarmStart(id)
  \/ \E id \in OpIds : PrewarmResolve(id)
  \/ \E id \in OpIds : BackendList(id)
  \/ \E id \in OpIds : BackendCount(id)
  \/ \E id \in OpIds, c \in 1..MaxUnits, throttled \in BOOLEAN :
       BackendEmit(id, c, throttled)
  \/ \E id \in OpIds : BackendFinish(id)

SpecProgress == Init /\ [][NextProgress]_vars

(***************************************************************************)
(* Scans of a directory with more than PrewarmTop subdirectories.          *)
(***************************************************************************)
InitPrewarm == InitWith(WideLayout)

NextPrewarm ==
  \/ ScanButton
  \/ \E p \in Paths : EnterDirectory(p)
  \/ GoBack
  \/ \E id \in OpIds : StartScanListen(id)
  \/ \E id \in OpIds : StartScanResolve(id)
  \/ \E id \in OpIds : EnterListen(id)
  \/ \E id \in OpIds : EnterResolve(id)
  \/ \E id \in OpIds : PrewarmStart(id)
  \/ \E id \in OpIds : PrewarmResolve(id)
  \/ \E id \in OpIds : BackendScan(id)

SpecPrewarm == InitPrewarm /\ [][NextPrewarm]_vars

(***************************************************************************)
(* Deletions with a history that earlier sessions have filled up to the    *)
(* cap, in a directory with two subdirectories and a file.                 *)
(***************************************************************************)
HistoryLens == {0, HistoryCap - 2, HistoryCap}

\* n records of earlier deletions, one per deletion, newest first
OldHistory(n) ==
  [i \in 1..n |->
     DeleteRecord(EntryOf(Paths, <<"Users", "me", "x">>), n + 1 - i)]

InitHistory ==
  /\ fs = MidLayout
  /\ currentPath = Users
  /\ items = <<>>
  /\ isScanning = FALSE
  /\ selectedItems = <<>>
  /\ pathHistory = <<>>
  /\ stats = [count |-> 0, totalSize |-> 0]
  /\ scanCache = EmptyCache
  /\ progressPercent = 0
  /\ scanProgress = [current |-> 0, total |-> 0]
  /\ \E n \in HistoryLens :
       /\ deleteHistory = OldHistory(n)
       /\ inserted = OldHistory(n)
       /\ clock = n + 1
  /\ walk = NoWalk
  /\ plain = NoPlain
  /\ startup = Started
  /\ modal = NoModal
  /\ ops = [id \in OpIds |-> FreeOp]
  /\ nextId = 1
  /\ scansStarted = 0
  /\ deletesStarted = 0
  /\ clicks = 0
  /\ lastWrite = [p \in Paths |-> NoEntry]
  /\ event = NoEvent

NextHistory ==
  \/ ScanButton
  \/ \E p \in Paths : ToggleSelection(p)
  \/ \E confirmed \in BOOLEAN : DeleteSelected(confirmed)
  \/ \E confirmed \in BOOLEAN : ClearDeleteHistory(confirmed)
  \/ \E id \in OpIds : StartScanListen(id)
  \/ \E id \in OpIds : StartScanResolve(id)
  \/ \E id \in OpIds : DeleteResolve(id)
  \/ \E id \in OpIds : DeleteReject(id)
  \/ \E id \in OpIds : BackendScan(id)
  \/ \E id \in OpIds, moved \in 0..MaxBatch : BackendDelete(id, moved)

SpecHistory == InitHistory /\ [][NextHistory]_vars

(***************************************************************************)
(* Pre-warming next to deletions: two directory children, either of which  *)
(* can be moved to the trash before the pre-warm loop comes to it.         *)
(***************************************************************************)
InitDuo == InitWith(DuoLayout)

NextDuo ==
  \/ ScanButton
  \/ \E p \in Paths : ToggleSelection(p)
  \/ \E confirmed \in BOOLEAN : DeleteSelected(confirmed)
  \/ \E id \in OpIds : StartScanListen(id)
  \/ \E id \in OpIds : StartScanResolve(id)
  \/ \E id \in OpIds : PrewarmStart(id)
  \/ \E id \in OpIds : PrewarmResolve(id)
  \/ \E id \in OpIds : PrewarmReject(id)
  \/ \E id \in OpIds : DeleteResolve(id)
  \/ \E id \in OpIds : DeleteReject(id)
  \/ \E id \in OpIds : BackendScan(id)
  \/ \E id \in OpIds, moved \in 0..MaxBatch : BackendDelete(id, moved)

SpecDuo == InitDuo /\ [][NextDuo]_vars

(***************************************************************************)
(* Navigation from a displayed list: the scan of /Users has just resolved, *)
(* its pre-warm loop waits for its timer.                                  *)
(***************************************************************************)
InitListed ==
  /\ fs = DuoLayout
  /\ currentPath = Users
  /\ items = Listing(DuoLayout, Users)
  /\ isScanning = FALSE
  /\ selectedItems = <<>>
  /\ pathHistory = <<>>
  /\ stats = StatsOf(Listing(DuoLayout, Users))
  /\ scanCache = CachePut(EmptyCache, Users,
                          MakeEntry(Listing(DuoLayout, Users), 1))
  /\ progressPercent = 0
  /\ scanProgress = [current |-> 0, total |-> 0]
  /\ deleteHistory = <<>>
  /\ inserted = <<>>
  /\ walk = NoWalk
  /\ plain = NoPlain
  /\ startup = Started
  /\ modal = NoModal
  /\ ops = [id \in OpIds |->
              IF id = 1
              THEN [NewOp(1, "prewarm", "timer", NoPath, {})
                      EXCEPT !.srcItems = Listing(DuoLayout, Users)]
              ELSE FreeOp]
  /\ nextId = 2
  /\ clock = 2
  /\ scansStarted = 0
  /\ deletesStarted = 0
  /\ clicks = 0
  /\ lastWrite = [p \in Paths |->
                    IF p = Users THEN MakeEntry(Listing(DuoLayout, Users), 1)
                    ELSE NoEntry]
  /\ event = NoEvent

NextListed ==
  \/ \E p \in Paths : EnterDirectory(p)
  \/ GoBack
  \/ \E id \in OpIds : EnterListen(id)
  \/ \E id \in OpIds : EnterResolve(id)
  \/ \E id \in OpIds : PrewarmStart(id)
  \/ \E id \in OpIds : PrewarmResolve(id)
  \/ \E id \in OpIds : BackendScan(id)

SpecListed == InitListed /\ [][NextListed]_vars

(***************************************************************************)
(* Scans of /data, which has an unreadable child: a (100 + 200), b         *)
(* (unreadable), c (50).  /Users does not exist here.                      *)
(***************************************************************************)
InitData == InitWith(DataLayout)

NextData ==
  \/ \E p \in Paths : SelectDirectory(p)
  \/ ScanButton
  \/ \E p \in Paths : EnterDirectory(p)
  \/ GoBack
  \/ \E id \in OpIds : StartScanListen(id)
  \/ \E id \in OpIds : StartScanResolve(id)
  \/ \E id \in OpIds : StartScanReject(id)
  \/ \E id \in OpIds : EnterListen(id)
  \/ \E id \in OpIds : EnterResolve(id)
  \/ \E id \in OpIds : EnterReject(id)
  \/ \E id \in OpIds : PrewarmStart(id)
  \/ \E id \in OpIds : PrewarmResolve(id)
  \/ \E id \in OpIds : PrewarmReject(id)
  \/ \E id \in OpIds : BackendScan(id)

SpecData == InitData /\ [][NextData]_vars

(***************************************************************************)
(* The same scans when the registration of the 'scan-progress' listener    *)
(* can be rejected too.  Timers fire, commands and registrations settle    *)
(* and their continuations run: weak fairness of every step but the        *)
(* user's.                                                                 *)
(***************************************************************************)
NextListen ==
  \/ \E p \in Paths : SelectDirectory(p)
  \/ ScanButton
  \/ \E p \in Paths : EnterDirectory(p)
  \/ GoBack
  \/ \E id \in OpIds : StartScanListen(id)
  \/ \E id \in OpIds : StartScanListenReject(id)
  \/ \E id \in OpIds : StartScanResolve(id)
  \/ \E id \in OpIds : StartScanReject(id)
  \/ \E id \in OpIds : EnterListen(id)
  \/ \E id \in OpIds : EnterListenReject(id)
  \/ \E id \in OpIds : EnterResolve(id)
  \/ \E id \in OpIds : EnterReject(id)
  \/ \E id \in OpIds : PrewarmStart(id)
  \/ \E id \in OpIds : PrewarmResolve(id)
  \/ \E id \in OpIds : PrewarmReject(id)
  \/ \E id \in OpIds : BackendScan(id)

ListenFairness ==
  \A id \in OpIds :
    /\ WF_vars(StartScanListen(id) \/ StartScanListenReject(id))
    /\ WF_vars(EnterListen(id) \/ EnterListenReject(id))
    /\ WF_vars(StartScanResolve(id)) /\ WF_vars(StartScanReject(id))
    /\ WF_vars(EnterResolve(id)) /\ WF_vars(EnterReject(id))
    /\ WF_vars(PrewarmStart(id)) /\ WF_vars(PrewarmResolve(id))
    /\ WF_vars(PrewarmReject(id)) /\ WF_vars(BackendScan(id))

SpecListen == InitData /\ [][NextListen]_vars /\ ListenFairness

(***************************************************************************)
(* The cached App and the App without a cache, given the same operations   *)
(* one after the other on a file system that does not change: every        *)
(* operation runs to its completion in one step, every scan succeeds.      *)
(* Pre-warm loops of the cached App run in between.                        *)
(***************************************************************************)
TwinLayout == SmallLayout \cup {<<"Users", "d6">>, <<"Users", "d6", "z">>}

\* startScan of the App without a cache: it scans currentPath
PlainStartScan(a, files) ==
  IF a.currentPath = NoPath THEN a
  ELSE [a EXCEPT !.items = Listing(files, a.currentPath),
                 !.stats = StatsOf(Listing(files, a.currentPath))]

\* its enterDirectory: push, set the path, scan it
PlainEnter(a, item, files) ==
  IF ~item.is_directory THEN a
  ELSE [a EXCEPT !.pathHistory = Append(@, a.currentPath),
                 !.currentPath = item.path,
                 !.items = Listing(files, item.path),
                 !.stats = StatsOf(Listing(files, item.path))]

\* its goBack: pop, set the path, scan it
PlainBack(a, files) ==
  IF Len(a.pathHistory) = 0 THEN a
  ELSE LET lastPath == a.pathHistory[Len(a.pathHistory)]
       IN [a EXCEPT !.pathHistory = SubSeq(@, 1, Len(@) - 1),
                    !.currentPath = lastPath,
                    !.items = Listing(files, lastPath),
                    !.stats = StatsOf(Listing(files, lastPath))]

\* the Scan button, from the click to the end of startScan(true)
TwinScanButton ==
  /\ Click
  /\ ~isScanning /\ currentPath # NoPath
  /\ scansStarted < MaxScans
  /\ scansStarted' = scansStarted + 1
  /\ LET result == Listing(fs, currentPath)
         entry == MakeEntry(result, clock)
     IN /\ scanCache' = CachePut(CacheDelete(scanCache, currentPath),
                                 currentPath, entry)
        /\ lastWrite' = [lastWrite EXCEPT ![currentPath] = entry]
        /\ items' = result
        /\ stats' = StatsOf(result)
        /\ ops' = Add(ops, [NewOp(nextId, "prewarm", "timer", NoPath,
                                  DOMAIN scanCache)
                              EXCEPT !.srcItems = result])
  /\ selectedItems' = <<>>
  /\ nextId' = nextId + 1
  /\ plain' = PlainStartScan(plain, fs)
  /\ event' = Ev("twinScan", 0, currentPath, <<>>)
  /\ UNCHANGED <<fs, currentPath, isScanning, pathHistory, progressPercent,
                 scanProgress, deleteHistory, inserted, walk, startup, modal,
                 clock, deletesStarted>>

\* enterDirectory(item), from the double click to its end
TwinEnter(p) ==
  LET item == ItemAt(items, p) IN
  /\ Click
  /\ p \in {it.path : it \in Range(items)}
  /\ IF ~item.is_directory
     THEN UNCHANGED <<currentPath, pathHistory, items, stats, scanCache,
                      lastWrite>>
     ELSE /\ pathHistory' = Append(pathHistory, currentPath)
          /\ currentPath' = item.path
          /\ IF item.path \in DOMAIN scanCache
             THEN /\ items' = scanCache[item.path].items
                  /\ stats' = scanCache[item.path].stats
                  /\ UNCHANGED <<scanCache, lastWrite>>
             ELSE LET result == Listing(fs, item.path)
                      entry == MakeEntry(result, clock)
                  IN /\ scanCache' = CachePut(scanCache, item.path, entry)
                     /\ lastWrite' = [lastWrite EXCEPT ![item.path] = entry]
                     /\ items' = result
                     /\ stats' = StatsOf(result)
  /\ plain' = PlainEnter(plain, item, fs)
  /\ event' = [Ev("twinEnter", 0, p, <<>>)
                 EXCEPT !.trigKeys = DOMAIN scanCache]
  /\ UNCHANGED <<fs, isScanning, selectedItems, progressPercent, scanProgress,
                 deleteHistory, inserted, walk, startup, modal, ops, nextId,
                 clock, scansStarted, deletesStarted>>

\* goBack
TwinBack ==
  /\ Click
  /\ Len(pathHistory) # 0
  /\ LET lastPath == pathHistory[Len(pathHistory)] IN
       /\ pathHistory' = SubSeq(pathHistory, 1, Len(pathHistory) - 1)
       /\ currentPath' = lastPath
       /\ IF lastPath \in DOMAIN scanCache
          THEN /\ items' = scanCache[lastPath].items
               /\ stats' = scanCache[lastPath].stats
          ELSE UNCHANGED <<items, stats>>
       /\ event' = [Ev("twinBack", 0, lastPath, <<>>)
                      EXCEPT !.trigKeys = DOMAIN scanCache]
  /\ plain' = PlainBack(plain, fs)
  /\ UNCHANGED <<fs, isScanning, selectedItems, scanCache, progressPercent,
                 scanProgress, deleteHistory, inserted, walk, startup, modal,
                 ops, nextId, clock, scansStarted, deletesStarted, lastWrite>>

TwinStarts == {Root, Users}

InitTwin ==
  /\ fs = TwinLayout
  /\ currentPath \in TwinStarts
  /\ plain = [NoPlain EXCEPT !.currentPath = currentPath]
  /\ startup = Started
  /\ modal = NoModal
  /\ items = <<>>
  /\ isScanning = FALSE
  /\ selectedItems = <<>>
  /\ pathHistory = <<>>
  /\ stats = [count |-> 0, totalSize |-> 0]
  /\ scanCache = EmptyCache
  /\ progressPercent = 0
  /\ scanProgress = [current |-> 0, total |-> 0]
  /\ deleteHistory = <<>>
  /\ inserted = <<>>
  /\ walk = NoWalk
  /\ ops = [id \in OpIds |-> FreeOp]
  /\ nextId = 1
  /\ clock = 1
  /\ scansStarted = 0
  /\ deletesStarted = 0
  /\ clicks = 0
  /\ lastWrite = [p \in Paths |-> NoEntry]
  /\ event = NoEvent

NextTwin ==
  \/ TwinScanButton
  \/ \E p \in Paths : TwinEnter(p)
  \/ TwinBack
  \/ \E id \in OpIds : PrewarmStart(id)
  \/ \E id \in OpIds : PrewarmResolve(id)
  \/ \E id \in OpIds : BackendScan(id)

SpecTwin == InitTwin /\ [][NextTwin]_vars

(***************************************************************************)
(* Full mode: the aggregation of one directory child under the two         *)
(* ceilings, one visited file a step, and the scan that displays it.       *)
(***************************************************************************)
FileCeiling == 10000
DepthCeiling == 5

\* the directory that is aggregated
BigDir == <<"Users", "big">>

\* the length of the i-th file of the walk, and the level it lies on: all
\* files in the directory itself, or one file on every level of a chain
FileSize(i) == (i % 3) + 1
Level(w, i) == IF w.shape = "deep" THEN i ELSE 1

\* a ceiling is hit: the next file would be one too many, or lies too deep
CeilingHit(w) ==
  \/ w.visited >= FileCeiling
  \/ Level(w, w.visited + 1) > DepthCeiling

\* the shapes the walks are run on: files around the file ceiling in one
\* directory, chains around the depth ceiling
WalkInputs ==
  ({FileCeiling - 1, FileCeiling, FileCeiling + 1} \X {"flat"})
    \cup ({DepthCeiling - 1, DepthCeiling, DepthCeiling + 1} \X {"deep"})

\* startScan('full') up to its await: invoke('scan_directory')
FullStart(n, shape) ==
  /\ Click
  /\ walk.state = "idle"
  /\ walk' = [NoWalk EXCEPT !.state = "walking", !.n = n, !.shape = shape]
  /\ isScanning' = TRUE
  /\ items' = <<>>
  /\ selectedItems' = <<>>
  /\ event' = Ev("fullStart", 0, currentPath, <<>>)
  /\ UNCHANGED <<fs, currentPath, pathHistory, stats, scanCache,
                 progressPercent, scanProgress, deleteHistory, inserted, plain, startup, modal, ops,
                 nextId, clock, scansStarted, deletesStarted, lastWrite>>

\* one step of the walk: the next file is added, or the walk ends, with the
\* truncation error when a ceiling stopped it
FullVisit ==
  /\ Background
  /\ walk.state = "walking"
  /\ walk' = IF walk.visited = walk.n
             THEN [walk EXCEPT !.state = "done"]
             ELSE IF CeilingHit(walk)
             THEN [walk EXCEPT !.state = "done", !.error = TRUE]
             ELSE [walk EXCEPT !.visited = @ + 1,
                               !.size = @ + FileSize(walk.visited + 1)]
  /\ event' = NoEvent
  /\ UNCHANGED <<fs, uiVars, scanCache, deleteHistory, inserted, plain, startup, modal, ops, nextId,
                 clock, scansStarted, deletesStarted, lastWrite>>

\* the command resolves with the entry of the directory; startScan displays it
FullFinish ==
  /\ Background
  /\ walk.state = "done"
  /\ walk' = [walk EXCEPT !.state = "returned"]
  /\ LET result == <<[path |-> BigDir, name |-> "big", size |-> walk.size,
                       is_directory |-> TRUE,
                       error |-> IF walk.error THEN "truncated" ELSE ""]>>
     IN /\ items' = result
        /\ stats' = StatsOf(result)
        /\ event' = [Ev("fullResolved", 0, currentPath, <<>>)
                       EXCEPT !.result = result]
  /\ isScanning' = FALSE
  /\ UNCHANGED <<fs, currentPath, selectedItems, pathHistory, scanCache,
                 progressPercent, scanProgress, deleteHistory, inserted, plain, startup, modal, ops,
                 nextId, clock, scansStarted, deletesStarted, lastWrite>>

\* the row the list draws for an item: checkbox, icon, name and size
Row(item, sel) ==
  [key |-> item.path, checked |-> item.path \in Range(sel),
   icon |-> IF item.is_directory THEN "folder" ELSE "file",
   name |-> item.name, size |-> item.size]

InitFull == InitWith(SmallLayout)

NextFull ==
  \/ \E in \in WalkInputs : FullStart(in[1], in[2])
  \/ FullVisit
  \/ FullFinish

SpecFull == InitFull /\ [][NextFull]_vars

(***************************************************************************)
(* The initialize effect: check_disk_access_permission raced against a     *)
(* timer, then the flags and the timer of the permission guide.  Time is   *)
(* counted in milliseconds and moves in steps of TickMs; a timer that is   *)
(* due fires before time moves on.                                         *)
(***************************************************************************)
TimeoutMs == 3000
GuideDelayMs == 1500

\* the effect has run up to its await: the command is invoked, the timer set
Starting == [check |-> "pending", race |-> "pending", timeout |-> "armed",
             guideTimer |-> "off", now |-> 0, guideAt |-> 0,
             isLoading |-> TRUE, hasFullDiskAccess |-> TRUE,
             showPermissionGuide |-> FALSE]

CheckOutcomes == {"true", "false", "rejected"}

\* what the race hands to the code after the await: .catch turns a rejection
\* into false
HasPermission(race) == race = "true"

\* the code after the await
InitializeContinue(st, race) ==
  [st EXCEPT !.race = race,
             !.hasFullDiskAccess = HasPermission(race),
             !.isLoading = FALSE,
             !.guideTimer = IF HasPermission(race) THEN "off" ELSE "armed",
             !.guideAt = IF HasPermission(race) THEN 0
                         ELSE st.now + GuideDelayMs]

\* check_disk_access_permission settles; the race takes the first to settle
CheckSettles(outcome) ==
  /\ startup.check = "pending"
  /\ startup' = IF startup.race = "pending"
                THEN InitializeContinue([startup EXCEPT !.check = outcome],
                                        outcome)
                ELSE [startup EXCEPT !.check = outcome]
  /\ UNCHANGED <<appVars, modal>>

\* a timer whose callback does not reject the promise
TimeoutFiresSilent ==
  /\ startup.timeout = "armed"
  /\ startup.now >= TimeoutMs
  /\ startup' = [startup EXCEPT !.timeout = "fired"]
  /\ UNCHANGED <<appVars, modal>>

\* the timer of the race rejects after TimeoutMs; it is never cleared
TimeoutFires ==
  /\ startup.timeout = "armed"
  /\ startup.now >= TimeoutMs
  /\ startup' = IF startup.race = "pending"
                THEN InitializeContinue([startup EXCEPT !.timeout = "fired"],
                                        "timeout")
                ELSE [startup EXCEPT !.timeout = "fired"]
  /\ UNCHANGED <<appVars, modal>>

\* setTimeout(() => setShowPermissionGuide(true), 1500)
GuideTimerFires ==
  /\ startup.guideTimer = "armed"
  /\ startup.now >= startup.guideAt
  /\ startup' = [startup EXCEPT !.guideTimer = "fired",
                                !.showPermissionGuide = TRUE]
  /\ UNCHANGED <<appVars, modal>>

TimerDue ==
  \/ startup.timeout = "armed" /\ startup.now >= TimeoutMs
  \/ startup.guideTimer = "armed" /\ startup.now >= startup.guideAt

Tick ==
  /\ startup.now < MaxTimeMs
  /\ ~TimerDue
  /\ startup' = [startup EXCEPT !.now = @ + TickMs]
  /\ UNCHANGED <<appVars, modal>>

\* onClose of PermissionGuide
GuideClose ==
  /\ startup.showPermissionGuide
  /\ startup' = [startup EXCEPT !.showPermissionGuide = FALSE]
  /\ UNCHANGED <<appVars, modal>>

\* the "?" button of the header, or the button of the warning banner; the
\* loading overlay covers both
GuideOpen ==
  /\ ~startup.isLoading
  /\ ~startup.showPermissionGuide
  /\ startup' = [startup EXCEPT !.showPermissionGuide = TRUE]
  /\ UNCHANGED <<appVars, modal>>

InitStartup ==
  /\ fs = SmallLayout
  /\ currentPath = Users
  /\ plain = [NoPlain EXCEPT !.currentPath = Users]
  /\ startup = Starting
  /\ modal = NoModal
  /\ items = <<>>
  /\ isScanning = FALSE
  /\ selectedItems = <<>>
  /\ pathHistory = <<>>
  /\ stats = [count |-> 0, totalSize |-> 0]
  /\ scanCache = EmptyCache
  /\ progressPercent = 0
  /\ scanProgress = [current |-> 0, total |-> 0]
  /\ deleteHistory = <<>>
  /\ inserted = <<>>
  /\ walk = NoWalk
  /\ ops = [id \in OpIds |-> FreeOp]
  /\ nextId = 1
  /\ clock = 1
  /\ scansStarted = 0
  /\ deletesStarted = 0
  /\ clicks = 0
  /\ lastWrite = [p \in Paths |-> NoEntry]
  /\ event = NoEvent

NextStartup ==
  \/ \E outcome \in CheckOutcomes : CheckSettles(outcome)
  \/ TimeoutFires
  \/ GuideTimerFires
  \/ Tick
  \/ GuideClose
  \/ GuideOpen

\* timers fire and time passes; the command need not answer, the user need
\* not click
StartupFairness ==
  /\ WF_vars(TimeoutFires)
  /\ WF_vars(GuideTimerFires)
  /\ WF_vars(Tick)

SpecStartup == InitStartup /\ [][NextStartup]_vars /\ StartupFairness

(***************************************************************************)
(* DeleteConfirmModal: one mounted instance, its parent and the onConfirm  *)
(* it awaits.  The parent opens the modal with a list of items and may     *)
(* close it from onConfirm; onConfirm resolves or rejects.                 *)
(***************************************************************************)
\* buttons whose confirm button stays enabled during a deletion
ButtonsCancelOnly(m) ==
  [cancelDisabled |-> m.isDeleting, confirmDisabled |-> FALSE]

\* disabled={isDeleting} on the cancel and on the confirm button
Buttons(m) ==
  [cancelDisabled |-> m.isDeleting, confirmDisabled |-> m.isDeleting]

\* the modal renders its buttons only while isOpen
Rendered(m) == m.isOpen

\* the lists the parent can pass as items
ModalItems ==
  {S \in SUBSET Children(fs, currentPath) :
     Cardinality(S) >= 1 /\ Cardinality(S) <= MaxBatch}

\* the parent opens the modal
ModalOpen(its) ==
  /\ ~modal.isOpen
  /\ modal' = [modal EXCEPT !.isOpen = TRUE, !.items = its]
  /\ UNCHANGED <<appVars, startup>>

\* the cancel button: onClick={onClose}
ModalCancel ==
  /\ Rendered(modal)
  /\ ~Buttons(modal).cancelDisabled
  /\ modal' = [modal EXCEPT !.isOpen = FALSE]
  /\ UNCHANGED <<appVars, startup>>

\* the confirm button: handleConfirm up to its await
HandleConfirm ==
  /\ Rendered(modal)
  /\ ~Buttons(modal).confirmDisabled
  /\ modal.pending < MaxPending
  /\ modal' = [modal EXCEPT !.isDeleting = TRUE, !.pending = @ + 1]
  /\ UNCHANGED <<appVars, startup>>

\* onConfirm closes the modal before it settles
OnConfirmCloses ==
  /\ modal.pending > 0
  /\ modal.isOpen
  /\ modal' = [modal EXCEPT !.isOpen = FALSE]
  /\ UNCHANGED <<appVars, startup>>

\* onConfirm settles: finally { setIsDeleting(false) }
ConfirmSettles(outcome) ==
  /\ modal.pending > 0
  /\ modal' = [modal EXCEPT !.isDeleting = FALSE, !.pending = @ - 1,
                            !.settled = outcome]
  /\ UNCHANGED <<appVars, startup>>

ConfirmOutcomes == {"resolved", "rejected"}

InitModal == InitWith(WideLayout)

NextModal ==
  \/ \E its \in ModalItems : ModalOpen(its)
  \/ ModalCancel
  \/ HandleConfirm
  \/ OnConfirmCloses
  \/ \E outcome \in ConfirmOutcomes : ConfirmSettles(outcome)

SpecModal == InitModal /\ [][NextModal]_vars

(***************************************************************************)
(* Properties of the cache.                                                *)
(***************************************************************************)
EntryAt(cache, p) == IF p \in DOMAIN cache THEN cache[p] ELSE NoEntry

Parent(p) == SubSeq(p, 1, Len(p) - 1)

CacheReads == {"enterHit", "backHit"}
CacheWrites == {"scanResolved", "enterResolved", "prewarmResolved"}
CacheInvalidations == {"scanButton", "deleteResolved"}

\* a step that serves path p from the cache displays the items and stats of
\* the last completed scan of p
ReadsLastWrite ==
  event'.type \in CacheReads =>
    /\ lastWrite[event'.path] # NoEntry
    /\ items' = lastWrite[event'.path].items
    /\ stats' = lastWrite[event'.path].stats

\* the entry of p changes only in a completed scan or an invalidation of p
OnlyOwnPathChanges ==
  \A p \in Paths :
    EntryAt(scanCache', p) # EntryAt(scanCache, p) =>
      /\ event'.type \in CacheWrites \cup CacheInvalidations
      /\ event'.path = p

\* C1: once a completed scan has written the entry of P, every cache read of
\* P (enterDirectory, goBack) returns that scan's items and stats until P is
\* invalidated or scanned again, and no write or invalidation of another path
\* changes the entry of P.
C1_CacheCorrect == [][ReadsLastWrite /\ OnlyOwnPathChanges]_vars

\* a directory is served from a cache that holds other entries as well
C1_Witness ==
  /\ event.type \in CacheReads
  /\ items # <<>>
  /\ Cardinality(DOMAIN scanCache) >= 2

ForegroundScans == {"startScan", "enterDirectory"}

\* C6: when a pre-warm scan and a foreground scan of the same path P both
\* complete, in either order, each completion leaves as the entry of P the
\* complete items and stats of the scan that has just completed (so the last
\* one wins, never a mixture, never missing) and changes no other entry.
C6_LastCompletionWins ==
  [][event'.type \in CacheWrites =>
       /\ event'.path \in DOMAIN scanCache'
       /\ EntryAt(scanCache', event'.path).items = event'.result
       /\ EntryAt(scanCache', event'.path).stats = StatsOf(event'.result)
       /\ \A q \in Paths \ {event'.path} :
            EntryAt(scanCache', q) = EntryAt(scanCache, q)]_vars

\* a scan of P completes after a scan of the other kind, of the same P, that
\* completed while it was running
C6_Witness ==
  \/ /\ event.type = "prewarmResolved"
     /\ \E k \in ForegroundScans : <<k, event.path>> \in event.seen
  \/ /\ event.type \in {"scanResolved", "enterResolved"}
     /\ <<"prewarm", event.path>> \in event.seen

\* C7: puts and invalidations are atomic: the cache holds, for every path,
\* the entry of the last completed scan of that path since its last
\* invalidation and none otherwise (no lost update), and the items and stats
\* of an entry come from the same scan.
C7_NoLostUpdate ==
  \A p \in Paths :
    /\ EntryAt(scanCache, p) = lastWrite[p]
    /\ p \in DOMAIN scanCache => scanCache[p].stats = StatsOf(scanCache[p].items)

\* a foreground scan of P1 completes after a pre-warm scan of P2 completed and
\* a deletion invalidated P3 while it was running, the three paths distinct
C7_Witness ==
  /\ event.type \in {"scanResolved", "enterResolved"}
  /\ \E p2, p3 \in Paths :
       /\ p2 # p3 /\ p2 # event.path /\ p3 # event.path
       /\ <<"prewarm", p2>> \in event.seen
       /\ <<"deleteSelected", p3>> \in event.seen
       /\ {event.path, p2} \subseteq DOMAIN scanCache
       /\ p3 \notin DOMAIN scanCache

(***************************************************************************)
(* Properties of deleteSelected.                                           *)
(***************************************************************************)
\* C2: after delete_items resolved, the deletion history holds one
\* DeleteRecord for every path that was passed to delete_items.
C2_RecordPerPath ==
  event.type = "deleteResolved" =>
    \A p \in Range(event.paths) :
      Cardinality({i \in 1..Len(deleteHistory) : deleteHistory[i].path = p}) = 1

\* C3: after delete_items resolved, the cache has no entry for the parent
\* directory of any deleted path, whatever currentPath was.
C3_ParentInvalidated ==
  event.type = "deleteResolved" =>
    \A p \in Range(event.paths) : Parent(p) \notin DOMAIN scanCache

\* C4: after a deletion, no cache entry of the directory of a deleted path or
\* of one of its ancestors still holds the items of before the deletion.
C4_NoStaleEntry ==
  event.type = "deleteResolved" =>
    \A p \in Range(event.paths) :
      \A q \in DOMAIN scanCache :
        (IsPrefix(q, p) /\ q # p) => scanCache[q].items = Listing(fs, q)

(***************************************************************************)
(* Properties of a scan that fails.                                        *)
(***************************************************************************)
ScanRejections == {"scanRejected", "enterRejected"}

ErrorAlerts(alerts) == SelectSeq(alerts, LAMBDA a : a = "scanFailed")

\* C10: when the scan command rejects in startScan or enterDirectory, no
\* items are displayed as the content of the target path, no cache entry is
\* written, and exactly one error is reported to the user.
C10_FailedScan ==
  [][event'.type \in ScanRejections =>
       /\ currentPath' = event'.path => items' = <<>>
       /\ scanCache' = scanCache
       /\ Len(ErrorAlerts(event'.alerts)) = 1]_vars

(***************************************************************************)
(* Properties of the pre-warm.                                             *)
(***************************************************************************)
PrewarmEvents == {"prewarmStart", "prewarmResolved", "prewarmRejected"}

\* the directories of a scan result that fewer than PrewarmTop directories
\* of the result exceed in size
LargestDirs(its) ==
  {i.path : i \in {j \in Range(its) :
     /\ j.is_directory
     /\ Cardinality({k \in Range(its) : k.is_directory /\ k.size > j.size})
          < PrewarmTop}}

\* C5: when the pre-warm of a completed scan has ended, it has scanned
\* exactly those of the 5 largest directory children that had no cache entry
\* when it was triggered: no file and no directory that was cached.
C5_PrewarmTargets ==
  (event.type \in PrewarmEvents /\ event.done) =>
    event.scanned = LargestDirs(event.srcItems) \ event.trigKeys

(***************************************************************************)
(* Properties of the progress events.                                      *)
(***************************************************************************)
ProgressEvents == {"progress", "progressFinal"}

\* C8: the progress events of a scan of a directory with N children have
\* non-decreasing current values and total N, and the final event has
\* current = total = N and percent = 100.
C8_ProgressMonotonic ==
  event.type \in ProgressEvents =>
    /\ event.payload.current >= event.prevCurrent
    /\ event.payload.total = Cardinality(Children(fs, event.path))
    /\ event.type = "progressFinal" =>
         /\ event.payload.current = event.payload.total
         /\ event.payload.percent = 100

\* C9: a progress event is received by no listener but the one that the
\* scan which emitted it registered.
C9_SingleProducer ==
  event.type \in ProgressEvents => event.receivers \subseteq {event.id}

(***************************************************************************)
(* Properties of the deletion history.                                     *)
(***************************************************************************)
\* C11: the stored history has at most 100 records, newest first, and they
\* are the 100 most recently inserted records since the last clear (all of
\* them when fewer were inserted).
C11_HistoryBound ==
  /\ Len(deleteHistory) <= 100
  /\ \A i \in 1..(Len(deleteHistory) - 1) :
       deleteHistory[i].deleted_at >= deleteHistory[i + 1].deleted_at
  /\ Len(deleteHistory) = IF Len(inserted) > 100 THEN 100 ELSE Len(inserted)
  /\ \A i \in 1..Len(deleteHistory) : deleteHistory[i] = inserted[i]

\* a deletion has put more than 100 records into the history
C11_Witness ==
  /\ event.type = "deleteResolved"
  /\ Len(inserted) > 100
  /\ deleteHistory[1].deleted_at > deleteHistory[Len(deleteHistory)].deleted_at

\* the records of history old that history new still holds are the first k
\* of old, unchanged and in the same order, at the end of new
KeepsNewest(old, new, k) ==
  /\ k <= Len(old) /\ k <= Len(new)
  /\ \A i \in 1..k : new[Len(new) - k + i] = old[i]

RECURSIVE SizeTotal(_, _)
SizeTotal(its, n) == IF n = 0 THEN 0 ELSE its[n].size + SizeTotal(its, n - 1)

\* C13: in every cache entry, stats.count is the number of its items and
\* stats.totalSize is the sum of their sizes.
C13_StatsMatchItems ==
  \A p \in DOMAIN scanCache :
    /\ scanCache[p].stats.count = Len(scanCache[p].items)
    /\ scanCache[p].stats.totalSize
         = SizeTotal(scanCache[p].items, Len(scanCache[p].items))

\* a pre-warm scan has written an entry next to the entry of a foreground
\* scan, both with items
C13_Witness ==
  /\ event.type = "prewarmResolved"
  /\ \E q \in DOMAIN scanCache :
       /\ q # event.path
       /\ scanCache[q].items # <<>>
       /\ scanCache[event.path].items # <<>>

\* C14: the rescan of deleteSelected is started only in the step in which
\* delete_items has resolved, the entry of the directory has been dropped and
\* the records have been put into the history, and that step always starts
\* a scan: the rescan is not answered from the cache.
C14_RescanLast ==
  [][/\ \A id \in OpIds :
          (ops[id].pc = "free" /\ ops'[id].kind = "startScan"
             /\ ops'[id].fromDelete) =>
            /\ event'.type = "deleteResolved"
            /\ ops[event'.id].kind = "deleteSelected"
            /\ ops[event'.id].be.state = "ok"
            /\ ops'[id].path = ops[event'.id].path
            /\ ops'[id].path \notin DOMAIN scanCache'
            /\ \A r \in Range(ops[event'.id].records) :
                 DeleteRecord(r, clock) \in Range(deleteHistory')
     /\ event'.type = "deleteResolved" =>
          /\ nextId' = nextId + 1
          /\ ops'[nextId].kind = "startScan" /\ ops'[nextId].pc = "timer"
          /\ ops'[nextId].fromDelete
          /\ ops'[nextId].path = event'.path
          /\ items' = <<>> /\ isScanning']_vars

\* a deletion resolved in a directory that was cached when delete was pressed
C14_Witness ==
  /\ event.type = "deleteResolved"
  /\ deleteHistory # <<>>
  /\ \E id \in OpIds :
       /\ ops[id].kind = "startScan" /\ ops[id].fromDelete
       /\ ops[id].pc = "timer"
       /\ ops[id].path \in ops[id].cacheKeys

Navigations == {"enterHit", "enterMiss", "backHit", "backMiss"}

\* C15: when enterDirectory or goBack targets a path that has a cache entry,
\* no scan is started, isScanning is not changed, and the displayed items and
\* stats are those of the entry.
C15_CachedNoRescan ==
  [][(event'.type \in Navigations /\ event'.path \in DOMAIN scanCache) =>
       /\ items' = scanCache[event'.path].items
       /\ stats' = scanCache[event'.path].stats
       /\ currentPath' = event'.path
       /\ ops' = ops /\ nextId' = nextId
       /\ isScanning' = isScanning]_vars

\* a cached directory has been entered while nothing was being scanned
C15_Witness ==
  /\ event.type = "enterHit"
  /\ ~isScanning
  /\ items = scanCache[currentPath].items
  /\ items # <<>>

\* C16: the Scan button removes the entry of currentPath and starts a scan
\* of it even when the entry existed, and when a scan of startScan resolves,
\* the displayed items and the new entry of its path are its result.
C16_ForcedRefresh ==
  [][/\ event'.type = "scanButton" =>
          /\ event'.path = currentPath
          /\ event'.path \notin DOMAIN scanCache'
          /\ nextId' = nextId + 1
          /\ ops'[nextId].kind = "startScan" /\ ops'[nextId].pc = "timer"
          /\ ops'[nextId].path = currentPath
          /\ items' = <<>> /\ isScanning'
     /\ event'.type = "scanResolved" =>
          /\ items' = event'.result
          /\ event'.path \in DOMAIN scanCache'
          /\ scanCache'[event'.path].items = event'.result]_vars

\* the Scan button has been pressed on a directory that had a cache entry
C16_Witness ==
  /\ event.type = "scanButton"
  /\ event.path \in event.trigKeys
  /\ isScanning

\* C20: when delete_items rejects, the failure is reported, and the deletion
\* history, the scan cache, the selection, the displayed items and
\* currentPath stay as they are and no scan is started; records enter the
\* history only when a deletion has resolved.
C20_FailedDelete ==
  [][/\ event'.type = "deleteRejected" =>
          /\ event'.alerts = <<"deleteFailed">>
          /\ UNCHANGED <<deleteHistory, scanCache, selectedItems, items,
                         stats, currentPath, isScanning, nextId>>
          /\ \A id \in OpIds : ops'[id].pc # "free" => ops'[id] = ops[id]
     /\ Len(inserted') > Len(inserted) => event'.type = "deleteResolved"]_vars

\* a deletion has been rejected while its selection and the entry of its
\* directory were there to lose
C20_Witness ==
  /\ event.type = "deleteRejected"
  /\ selectedItems # <<>>
  /\ event.path = currentPath
  /\ currentPath \in DOMAIN scanCache

\* C17: a pre-warm loop is created only in the step that displays the result
\* of its foreground scan and invokes nothing in that step; no step of a
\* pre-warm loop changes the displayed items, the stats, the selection or
\* isScanning or raises an alert; a rejected pre-warm scan leaves the cache
\* as it is, and the loop goes on with the next child that is not cached.
C17_PrewarmSilent ==
  [][/\ \A id \in OpIds :
          (ops'[id].kind = "prewarm" /\ ops[id].kind # "prewarm") =>
            /\ event'.type = "scanResolved"
            /\ ops'[id].pc = "timer"
            /\ items' = event'.result
            /\ ops'[id].srcItems = items'
     /\ event'.type \in PrewarmEvents =>
          /\ UNCHANGED <<items, stats, selectedItems, isScanning, currentPath>>
          /\ event'.alerts = <<>>
     /\ event'.type = "prewarmRejected" =>
          /\ scanCache' = scanCache
          /\ LET o == ops[event'.id]
                 rest == SkipCached(o.todo, o.cacheKeys)
             IN rest # <<>> =>
                  /\ ops'[event'.id].kind = "prewarm"
                  /\ ops'[event'.id].pc = "invoked"
                  /\ ops'[event'.id].path = Head(rest)]_vars

\* the pre-warm scan of one child has been rejected, the loop has gone on to
\* the next child, and the list of the foreground scan is still displayed
C17_Witness ==
  /\ event.type = "prewarmRejected"
  /\ ~event.done
  /\ event.path \notin DOMAIN scanCache
  /\ items = event.srcItems
  /\ items # <<>>
  /\ \E id \in OpIds : ops[id].kind = "prewarm" /\ ops[id].pc = "invoked"
                        /\ ops[id].path # event.path

(***************************************************************************)
(* Entries that carry an error.                                            *)
(***************************************************************************)
Errored(its) == {it \in Range(its) : it.error # ""}

\* the bytes of the files beneath directory q, counted one by one
TrueSize(files, q) ==
  LET under == {f \in files : IsPrefix(q, f) /\ ~Tree[f].dir}
      sizes == [f \in under |-> Tree[f].size]
      RECURSIVE Sum(_)
      Sum(S) == IF S = {} THEN 0
                ELSE LET f == CHOOSE x \in S : TRUE IN sizes[f] + Sum(S \ {f})
  IN Sum(under)

\* C18: a resolved scan whose result has an entry with an error is accepted
\* without an alert: the displayed items and the cached items are the whole
\* result, the stats count every entry and sum every size, the entries
\* without an error have the sizes of their subtrees, and for /data the
\* result is a = 300, b = 0 with an error, c = 50, stats {3, 350}.
C18_PartialFailure ==
  [][(event'.type \in {"scanResolved", "enterResolved"}
        /\ Errored(event'.result) # {}) =>
       /\ event'.alerts = <<>>
       /\ items' = event'.result
       /\ scanCache'[event'.path].items = event'.result
       /\ Errored(items') = Errored(event'.result)
       /\ stats'.count = Len(event'.result)
       /\ stats'.totalSize = SizeTotal(event'.result, Len(event'.result))
       /\ scanCache'[event'.path].stats = stats'
       /\ \A it \in Range(items') \ Errored(items') :
            it.size = IF it.is_directory THEN TrueSize(fs, it.path)
                      ELSE Tree[it.path].size
       /\ event'.path = Data =>
            /\ Len(items') = 3
            /\ stats' = [count |-> 3, totalSize |-> 350]
            /\ {<<it.name, it.size, it.error # "">> : it \in Range(items')}
                 = {<<"a", 300, FALSE>>, <<"b", 0, TRUE>>, <<"c", 50, FALSE>>}]_vars

\* the scan of /data has resolved with the entry of b carrying an error
C18_Witness ==
  /\ event.type = "scanResolved"
  /\ event.path = Data
  /\ Errored(items) # {}
  /\ Len(items) = 3
  /\ Data \in DOMAIN scanCache

(***************************************************************************)
(* Truncation in full mode.                                                *)
(***************************************************************************)
\* the sum of the lengths of the first k files, in closed form
SumFirst(k) ==
  6 * (k \div 3) + (IF k % 3 = 0 THEN 0 ELSE IF k % 3 = 1 THEN 2 ELSE 5)

\* the files a walk may add before a ceiling stops it
Kept(w) ==
  LET ceiling == IF w.shape = "deep" THEN DepthCeiling ELSE FileCeiling
  IN IF w.n > ceiling THEN ceiling ELSE w.n

\* the walk never goes past a ceiling; when it has ended, the size is the
\* sum of the files up to the ceiling and the error is set exactly when files
\* were left out; the scan resolves with that entry and raises no alert
PartialSum ==
  /\ walk.visited <= Kept(walk)
  /\ walk.size = SumFirst(walk.visited)
  /\ walk.state \in {"done", "returned"} =>
       /\ walk.visited = Kept(walk)
       /\ walk.error <=> (walk.n > Kept(walk))
  /\ walk.state = "returned" =>
       /\ event.type = "fullResolved" /\ event.alerts = <<>>
       /\ Len(items) = 1
       /\ items[1].size = SumFirst(Kept(walk))
       /\ (items[1].error # "") <=> (walk.n > Kept(walk))
       /\ stats = [count |-> 1, totalSize |-> items[1].size]
       /\ (walk.n = 10001 /\ walk.shape = "flat") =>
            /\ items[1].size = SumFirst(10000)
            /\ items[1].size < SumFirst(10001)
            /\ items[1].error # ""

\* an item's error shows: its row differs from the row of the same item
\* without the error
Surfaced(item) ==
  Row(item, selectedItems) # Row([item EXCEPT !.error = ""], selectedItems)

\* C19: full mode stops on the file or depth ceiling and returns the partial
\* sum with the truncation error (for 10,001 files the sum of exactly the
\* first 10,000), the scan is not reported as failed, and the truncation is
\* not hidden: the displayed entry shows it.
C19_Truncation ==
  /\ PartialSum
  /\ walk.state = "returned" =>
       \A i \in 1..Len(items) : items[i].error # "" => Surfaced(items[i])

(***************************************************************************)
(* Navigation, selection and the scanning flag.                            *)
(***************************************************************************)
\* C21: the path goBack pops has a cache entry at that moment, and after
\* goBack the displayed items and stats are those of the restored
\* currentPath.
C21_BackCached ==
  [][event'.type \in {"backHit", "backMiss"} =>
       /\ currentPath' = event'.path
       /\ currentPath' \in DOMAIN scanCache
       /\ items' = scanCache[currentPath'].items
       /\ stats' = scanCache[currentPath'].stats]_vars

\* C22: the selection is a subset of the paths of the displayed items, and
\* the paths handed to delete_items are exactly the paths of the displayed
\* items the confirmation has counted.
C22_SelectionDisplayed ==
  /\ Range(selectedItems) \subseteq {it.path : it \in Range(items)}
  /\ \A id \in OpIds :
       ops[id].kind = "deleteSelected" =>
         {r.path : r \in Range(ops[id].records)} = Range(ops[id].paths)

\* a scan of startScan or enterDirectory has been started and not settled
ForegroundInFlight ==
  \E id \in OpIds : ops[id].pc # "free"
                     /\ ops[id].kind \in {"startScan", "enterDirectory"}

\* C23: with startScan, enterDirectory and goBack only and every scan
\* succeeding, whenever no foreground scan is in flight and items are
\* displayed, they are the result of currentPath: its listing, or its cache
\* entry.
C23_ItemsOfCurrentPath ==
  (~ForegroundInFlight /\ items # <<>>) =>
    \/ items = Listing(fs, currentPath)
    \/ /\ currentPath \in DOMAIN scanCache
       /\ items = scanCache[currentPath].items

\* an item of directory C has been moved to the trash
DeletedInside(C) == \E r \in Range(inserted) : Parent(r.path) = C

\* C24: a completing pre-warm scan of a directory C in which items were
\* deleted does not replace an entry of C that holds the post-deletion
\* result by an older one.
C24_PrewarmNotStale ==
  [][(/\ event'.type = "prewarmResolved"
      /\ DeletedInside(event'.path)
      /\ event'.path \in DOMAIN scanCache
      /\ scanCache[event'.path].items = Listing(fs, event'.path)) =>
       scanCache'[event'.path].items = Listing(fs, event'.path)]_vars

\* C25: isScanning is true exactly while a scan of startScan or
\* enterDirectory is in flight.
C25_ScanningFlag == isScanning <=> ForegroundInFlight

\* C26: whenever isScanning is true it is false again later, and whenever a
\* 'scan-progress' listener is registered none is registered later, whether
\* the registration and the scan command succeed or fail.
C26_ScanEnds ==
  /\ isScanning ~> ~isScanning
  /\ (Listeners # {}) ~> (Listeners = {})

\* C27: on an unchanging file system with every scan succeeding, after every
\* operation of a sequence of completed startScan, enterDirectory and goBack
\* operations, the cached App has the same currentPath, the same pathHistory
\* and, up to order, the same displayed items as the App without a cache.
C27_CacheTransparent ==
  /\ currentPath = plain.currentPath
  /\ pathHistory = plain.pathHistory
  /\ Range(items) = Range(plain.items)
  /\ Len(items) = Len(plain.items)

\* goBack has been served from the cache, two levels up and back, where the
\* App without a cache has scanned again
C27_Witness ==
  /\ event.type = "twinBack"
  /\ event.path \in event.trigKeys
  /\ Cardinality(DOMAIN scanCache) >= 3
  /\ items # <<>>
  /\ items = plain.items

\* C28: enterDirectory on a directory pushes the currentPath it leaves and
\* goBack pops what the last push has put there, so a goBack right after an
\* enterDirectory restores currentPath and pathHistory, whatever the scan of
\* the entered directory does; enterDirectory on a file changes nothing, and
\* goBack acts on a history with an element only.
C28_HistoryStack ==
  [][/\ event'.type \in {"enterHit", "enterMiss"} =>
          /\ pathHistory' = Append(pathHistory, currentPath)
          /\ currentPath' = event'.path
     /\ event'.type \in {"backHit", "backMiss"} =>
          /\ Len(pathHistory) > 0
          /\ pathHistory = Append(pathHistory', currentPath')
     /\ event'.type = "enterFile" =>
          UNCHANGED <<uiVars, scanCache, ops, nextId>>]_vars

\* goBack right after enterDirectory of the unreadable directory b, whose
\* scan cannot succeed, has restored the path and the history of before
C28_Witness ==
  /\ event.type \in {"backHit", "backMiss"}
  /\ currentPath = Data
  /\ pathHistory = <<>>
  /\ <<"data", "b">> \notin DOMAIN scanCache
  /\ \E id \in OpIds : ops[id].kind = "enterDirectory"
                        /\ ops[id].path = <<"data", "b">>

C30_OneConfirm ==
  /\ modal.pending <= 1
  /\ modal.pending = 1 =>
       /\ modal.isDeleting
       /\ Buttons(modal).confirmDisabled
       /\ Buttons(modal).cancelDisabled
  /\ modal.pending = 0 => ~modal.isDeleting

\* an onConfirm has rejected, the modal was confirmed again and that
\* onConfirm is pending, the buttons on screen
C30_Witness ==
  /\ modal.settled = "rejected"
  /\ modal.pending = 1
  /\ modal.isOpen
  /\ modal.isDeleting

====
